---- MODULE Spec2Model ----
(***************************************************************************)
(* A model of maptalks' event and lifecycle core:                          *)
(*   Z.Eventable       (src/src/core/Event.js)                             *)
(*   Z.MapTool         (src/unnamed/part_000)                              *)
(*   Z.ui.UIComponent  (src/unnamed/part_001)                              *)
(* JavaScript is single threaded: every public call runs to completion,    *)
(* so every action below is one whole call, nested calls included.         *)
(***************************************************************************)
EXTENDS Integers, Sequences, FiniteSets, TLC

\* ------------------------------------------------------------------ bounds
\* Subscribers held by all event maps of the bus emitters together.
MaxSubs == 2
\* Nesting depth up to which the re-firing handler fires again.
MaxDepth == 1
\* once-wrappers alive (registered somewhere) at the same time.
MaxOnce == 2

\* ----------------------------------------------------------------- objects
Emitters == {"A", "B"}
None == "none"

\* Event type tokens as callers write them, and toLowerCase on them.
Tokens == {"a", "A", "b"}

\* toLowerCase leaving the token as written.
toLowerCaseKeep(t) == t

toLowerCase(t) == IF t = "A" THEN "a" ELSE t

\* Values of the eventsOn / eventsOff argument: a string, split(' ') applied
\* (<<>> stands for the empty, falsy string where an action takes it).
TypeLists == {<<"a">>, <<"a", "b">>}

\* --------------------------------------------------------------- handlers
\* A handler is a function value: a user function (w = 0) or the closure
\* onceHandler made by the w-th live call of _wrapOnceHandler.
Fn(name) == [fn |-> name, w |-> 0]
Wrap(k) == [fn |-> "onceHandler", w |-> k]
NoHandler == Fn("undefined")

\* User functions and what their bodies do with the payload they get:
\*   h1  nothing
\*   h2  param.target.off(param.type, h1)
\*   h3  param.target.on(param.type, h1)
\*   h4  param.target.fire(param.type), while nested less than MaxDepth deep
\*   h5  return false
\*   h6  return 0
UserFns == {"h1", "h2", "h3", "h4", "h5", "h6", "h7"}

\* What a call of the function returns to _fire. onceHandler has no return
\* statement: the value of the handler it wraps is dropped.
Returns(h) ==
    IF h = Fn("h5") THEN "false" ELSE IF h = Fn("h6") THEN "0" ELSE "undefined"

Sub(h, c) == [handler |-> h, context |-> c]

\* ------------------------------------------------------------- event maps
\* this._eventMap: has = FALSE while the field is unset; ch[k] is the entry
\* under key k: absent, or an array of subscribers.
AbsentChain == [st |-> "absent", subs |-> <<>>]
Chain(s) == [st |-> "array", subs |-> s]
\* The entry _clearListeners leaves: the key holds null.
NullChain == [st |-> "null", subs |-> <<>>]
\* Event types the hosts (maps) are listened on by tools and overlays.
HostKeys == {"click", "mousemove", "zooming", "zoomend"}
Keys == Tokens \cup HostKeys
NoEventMap == [has |-> FALSE, ch |-> [k \in Keys |-> AbsentChain]]

VARIABLES
    evmap,      \* [Emitters -> event map]          this._eventMap
    parent,     \* [Emitters -> Emitters or None]   this._eventParent
    onceTab,    \* [WIds -> closure]               the closures of _wrapOnceHandler
    called,     \* set of wrapper ids               the closures' `called` flag
    invoked,    \* [wrapper id -> Nat]  history: calls of the wrapped handler
    trace       \* history: the last call and what it did

VARIABLES
    tmap,       \* [Tools -> Hosts or None]   MapTool: this._map
    tenabled,   \* [Tools -> BOOLEAN]         MapTool: this._enabled
    slot,       \* [Hosts -> Tools or None]   map['_tool' + name]
    hmap,       \* [Hosts -> event map]       the map's _eventMap
    elog,       \* [Tools -> Seq] history: the enable / disable events fired
    ttrace      \* history: the last tool call and the events it fired

VARIABLES
    owner,      \* [Overlays -> Hosts or None]   UIComponent: this._owner
    coord,      \* [Overlays -> Coords or None]  this._coordinate
    uiDOM,      \* [Overlays -> element id or 0] this.__uiDOM
    dom,        \* [DomIds -> element]           the elements built by buildOn
    cache,      \* [Hosts -> element id or 0]    map['__ui_' + class name]
    view,       \* [Hosts -> zoom]               the map's view transform
    lastShow,   \* [Hosts -> overlay] history: whose show ran last on the map
    utrace      \* history: the last overlay call, its events and DOM calls

busVars == <<evmap, parent, onceTab, called, invoked, trace>>
toolVars == <<tmap, tenabled, slot, hmap, elog, ttrace>>
uiVars == <<owner, coord, uiDOM, dom, cache, view, lastShow, utrace>>
vars == <<busVars, toolVars, uiVars>>

\* ----------------------------------------------------------- Eventable.on
HasSub(subs, h, c) ==
    \E i \in 1..Len(subs) : subs[i].handler = h /\ subs[i].context = c

\* on without the scan for a registered pair: every call pushes.
RECURSIVE OnLoopNoScan(_, _, _, _, _)
OnLoopNoScan(m, eventTypes, ii, h, c) ==
    IF ii > Len(eventTypes) THEN m
    ELSE LET evtType == toLowerCase(eventTypes[ii])
             old == IF m.ch[evtType].st # "array" THEN <<>> ELSE m.ch[evtType].subs
         IN  OnLoopNoScan([m EXCEPT !.ch[evtType] = Chain(Append(old, Sub(h, c)))],
                          eventTypes, ii + 1, h, c)

\* on putting a new pair at the head of the chain (unshift for push).
RECURSIVE OnLoopUnshift(_, _, _, _, _)
OnLoopUnshift(m, eventTypes, ii, h, c) ==
    IF ii > Len(eventTypes) THEN m
    ELSE LET evtType == toLowerCase(eventTypes[ii])
             m1 == IF m.ch[evtType].st # "array"
                   THEN [m EXCEPT !.ch[evtType] = Chain(<<>>)]
                   ELSE m
             handlerChain == m1.ch[evtType].subs
         IN  IF HasSub(handlerChain, h, c) THEN m1
             ELSE OnLoopUnshift([m1 EXCEPT !.ch[evtType] =
                                       Chain(<<Sub(h, c)>> \o handlerChain)],
                                eventTypes, ii + 1, h, c)

\* The loop of on over the split tokens; a pair found already registered
\* leaves the function (return this).
RECURSIVE OnLoop(_, _, _, _, _)
OnLoop(m, eventTypes, ii, h, c) ==
    IF ii > Len(eventTypes) THEN m
    ELSE LET evtType == toLowerCase(eventTypes[ii])
             m1 == IF m.ch[evtType].st # "array"
                   THEN [m EXCEPT !.ch[evtType] = Chain(<<>>)]
                   ELSE m
             handlerChain == m1.ch[evtType].subs
         IN  IF HasSub(handlerChain, h, c) THEN m1
             ELSE OnLoop([m1 EXCEPT !.ch[evtType] =
                                Chain(Append(handlerChain, Sub(h, c)))],
                         eventTypes, ii + 1, h, c)

\* on(eventsOn, handler, context) on emitter self whose event map is m.
On(m, self, eventsOn, h, ctx) ==
    IF eventsOn = <<>> \/ h = NoHandler THEN m
    ELSE OnLoop([m EXCEPT !.has = TRUE], eventsOn, 1, h,
                IF ctx = None THEN self ELSE ctx)

\* ---------------------------------------------------------- Eventable.off
RemoveSub(subs, h, c) ==
    SelectSeq(subs, LAMBDA s : ~(s.handler = h /\ s.context = c))

RECURSIVE OffLoop(_, _, _, _, _)
OffLoop(m, eventTypes, j, h, c) ==
    IF j > Len(eventTypes) THEN m
    ELSE LET eventType == toLowerCase(eventTypes[j])
         IN  IF m.ch[eventType].st # "array" THEN m
             ELSE OffLoop([m EXCEPT !.ch[eventType] =
                                 Chain(RemoveSub(m.ch[eventType].subs, h, c))],
                          eventTypes, j + 1, h, c)

Off(m, self, eventsOff, h, ctx) ==
    IF eventsOff = <<>> \/ ~m.has \/ h = NoHandler THEN m
    ELSE OffLoop(m, eventsOff, 1, h, IF ctx = None THEN self ELSE ctx)

\* ------------------------------------------------------ Eventable.listens
\* listens matching on the handler alone, whatever context is given.
ListensAnyContext(m, eventType, h, ctx) ==
    IF ~m.has THEN 0
    ELSE LET handlerChain == m.ch[toLowerCase(eventType)]
         IN  IF handlerChain.st # "array" THEN 0
             ELSE IF h # NoHandler
                  THEN IF \E i \in 1..Len(handlerChain.subs) :
                              handlerChain.subs[i].handler = h
                       THEN 1 ELSE 0
                  ELSE Len(handlerChain.subs)

Listens(m, eventType, h, ctx) ==
    IF ~m.has THEN 0
    ELSE LET handlerChain == m.ch[toLowerCase(eventType)]
         IN  IF handlerChain.st # "array" THEN 0
             ELSE IF h # NoHandler
                  THEN IF \E i \in 1..Len(handlerChain.subs) :
                              /\ handlerChain.subs[i].handler = h
                              /\ (ctx = None \/ handlerChain.subs[i].context = ctx)
                       THEN 1 ELSE 0
                  ELSE Len(handlerChain.subs)

\* ------------------------------------------- Eventable.copyEventListeners
KeyOrder == <<"a", "A", "b">>

RECURSIVE CopyChain(_, _, _, _, _)
CopyChain(m, self, eventType, handlerChain, i) ==
    IF i > Len(handlerChain) THEN m
    ELSE CopyChain(On(m, self, <<eventType>>, handlerChain[i].handler,
                      handlerChain[i].context),
                   self, eventType, handlerChain, i + 1)

RECURSIVE CopyKeys(_, _, _, _)
CopyKeys(m, self, eventMap, k) ==
    IF k > Len(KeyOrder) THEN m
    ELSE LET eventType == KeyOrder[k]
         IN  IF eventMap.ch[eventType].st = "null" THEN m
             ELSE
             CopyKeys(IF eventMap.ch[eventType].st = "array"
                      THEN CopyChain(m, self, eventType,
                                     eventMap.ch[eventType].subs, 1)
                      ELSE m,
                      self, eventMap, k + 1)

\* copyEventListeners reads handlerChain.length of every key of target's
\* map: a key holding null makes the call throw, the keys before it (in
\* KeyOrder) copied.
CopyThrows(eventMap) ==
    eventMap.has /\ \E k \in Tokens : eventMap.ch[k].st = "null"

\* _clearListeners(eventType) on the emitter whose map is m.
ClearListeners(m, eventType) ==
    IF ~m.has THEN m
    ELSE IF m.ch[toLowerCase(eventType)].st # "array" THEN m
    ELSE [m EXCEPT !.ch[eventType] = NullChain]

\* _clearAllListeners()
ClearAllListeners(m) == NoEventMap

\* this.copyEventListeners(target): m is this' map, eventMap target's.
CopyEventListeners(m, self, eventMap) ==
    IF ~eventMap.has THEN m ELSE CopyKeys(m, self, eventMap, 1)

\* ------------------------------------------------------ Eventable.fire
\* The state a fire call works on: the event maps, the once closures'
\* flags, and the history of the call: the subscribers invoked, in order,
\* each with the emitter whose chain held it and the nesting depth.
WIds == 1..MaxOnce

\* The payload object of a fire call: given = FALSE when the caller passed
\* none (_fire then makes its own {}); domEvent: it carries a DOM event;
\* type, target: the fields _fire writes.
NoParam == [given |-> FALSE, domEvent |-> FALSE, type |-> None, target |-> None]
Param(domEvent) == [NoParam EXCEPT !.given = TRUE, !.domEvent = domEvent]
\* reg (history): the once call that made the closure, named by the id of
\* the closure it made first.
NoClosure == [me |-> None, evtType |-> None, handler |-> NoHandler, context |-> None,
              reg |-> 0]

LogEntry(sub, e, d) ==
    [handler |-> sub.handler, context |-> sub.context, src |-> e, d |-> d]

RECURSIVE Fire(_, _, _, _, _)
RECURSIVE Fire_(_, _, _, _)
RECURSIVE RunQueue(_, _, _, _, _, _)
RECURSIVE Invoke(_, _, _, _, _)
RECURSIVE CallFn(_, _, _, _, _)

\* The body of user function h, called with payload {type, target: e}.
CallFn(S, h, e, type, d) ==
    CASE h = Fn("h1") -> S
      [] h = Fn("h2") -> [S EXCEPT !.em[e] = Off(S.em[e], e, <<type>>, Fn("h1"), None)]
      [] h = Fn("h3") -> [S EXCEPT !.em[e] = On(S.em[e], e, <<type>>, Fn("h1"), None)]
      [] h = Fn("h4") -> IF d < MaxDepth
                         THEN [Fire([S EXCEPT !.param = NoParam], e, type, d + 1,
                                    Cardinality(Emitters))
                               EXCEPT !.param = S.param]
                         ELSE S
      [] h = Fn("h5") -> S
      [] h = Fn("h6") -> S
      [] h = Fn("h7") -> [S EXCEPT !.err = "Error"]
      [] OTHER -> [S EXCEPT !.err = "TypeError"]

\* onceHandler raising its flag only after the wrapped handler returned.
OnceHandlerLateFlag(S, w, thisArg, e, type, d) ==
    IF w \in S.called THEN S
    ELSE LET c == onceTab[w]
             S1 == [S EXCEPT !.invoked[w] = @ + 1]
             S2 == CallFn(S1, c.handler, e, type, d)
         IN  IF S2.err # None THEN S2
             ELSE [S2 EXCEPT !.called = @ \cup {w},
                             !.em[c.me] =
                       Off(S2.em[c.me], c.me, <<c.evtType>>, Wrap(w), thisArg)]

\* onceHandler, the closure of _wrapOnceHandler with id w, called with
\* this = thisArg.
OnceHandler(S, w, thisArg, e, type, d) ==
    IF w \in S.called THEN S
    ELSE LET c == onceTab[w]
             S1 == [S EXCEPT !.called = @ \cup {w}, !.invoked[w] = @ + 1]
             S2 == CallFn(S1, c.handler, e, type, d)
         IN  IF S2.err # None THEN S2
             ELSE [S2 EXCEPT !.em[c.me] =
                       Off(S2.em[c.me], c.me, <<c.evtType>>, Wrap(w), thisArg)]

\* One subscriber of the queue invoked by _fire.
Invoke(S, sub, e, type, d) ==
    LET S1 == [S EXCEPT !.log = Append(@, LogEntry(sub, e, d))]
    IN  IF sub.handler.w = 0
        THEN CallFn(S1, sub.handler, e, type, d)
        ELSE OnceHandler(S1, sub.handler.w, sub.context, e, type, d)

\* After a call: bubble === false with param.domEvent set calls
\* Z.DomUtil.stopPropagation(param.domEvent).
Bubble(S, h, d) ==
    IF S.err = None /\ Returns(h) = "false" /\ S.param.domEvent
    THEN [S EXCEPT !.stops = Append(@, d)]
    ELSE S

\* The loop of _fire run on the chain itself instead of a copy of it.
RECURSIVE RunQueueLive(_, _, _, _, _, _)
RunQueueLive(S, queue, i, e, type, d) ==
    LET live == S.em[e].ch[toLowerCase(type)].subs
    IN  IF i > Len(queue) \/ S.err # None THEN S
        ELSE IF i > Len(live) THEN RunQueueLive(S, queue, i + 1, e, type, d)
        ELSE RunQueueLive(Bubble(Invoke(S, live[i], e, type, d), live[i].handler, d),
                          queue, i + 1, e, type, d)

\* The loop of _fire leaving at the first handler that returns false.
RECURSIVE RunQueueBreak(_, _, _, _, _, _)
RunQueueBreak(S, queue, i, e, type, d) ==
    IF i > Len(queue) \/ S.err # None THEN S
    ELSE IF Returns(queue[i].handler) = "false"
         THEN Bubble(Invoke(S, queue[i], e, type, d), queue[i].handler, d)
         ELSE RunQueueBreak(Bubble(Invoke(S, queue[i], e, type, d), queue[i].handler, d),
                            queue, i + 1, e, type, d)

\* The loop of _fire with every call wrapped in a try/catch that drops the
\* failure.
RECURSIVE RunQueueCatch(_, _, _, _, _, _)
RunQueueCatch(S, queue, i, e, type, d) ==
    IF i > Len(queue) THEN S
    ELSE RunQueueCatch([Bubble(Invoke(S, queue[i], e, type, d), queue[i].handler, d)
                           EXCEPT !.err = None],
                       queue, i + 1, e, type, d)

\* The loop of _fire over the queue: an exception of a handler leaves the
\* loop and _fire.
RunQueue(S, queue, i, e, type, d) ==
    IF i > Len(queue) \/ S.err # None THEN S
    ELSE RunQueue(Bubble(Invoke(S, queue[i], e, type, d), queue[i].handler, d),
                  queue, i + 1, e, type, d)

\* The queue _fire runs: a copy of the chain taken before the first call.
FireQueue(S, e, eventType) == S.em[e].ch[toLowerCase(eventType)].subs

\* _fire(eventType, param) on emitter e.
Fire_(S, e, eventType, d) ==
    IF ~S.em[e].has THEN S
    ELSE IF S.em[e].ch[toLowerCase(eventType)].st # "array" THEN S
    ELSE RunQueue([S EXCEPT !.param.type = eventType, !.param.target = e],
                  FireQueue(S, e, eventType), 1, e, eventType, d)

\* fire that also runs the emitter's own chain before forwarding.
RECURSIVE FireOwnToo(_, _, _, _, _)
FireOwnToo(S, e, eventType, d, fuel) ==
    IF parent[e] # None
    THEN IF fuel = 0 THEN [S EXCEPT !.err = "RangeError"]
         ELSE FireOwnToo(Fire_(S, e, eventType, d), parent[e], eventType, d, fuel - 1)
    ELSE Fire_(S, e, eventType, d)

\* fire(eventType, param) on emitter e: forwarded to the event parent when
\* there is one. A cycle of parents never returns (the call stack
\* overflows: RangeError); fuel counts the forwards left before that.
Fire(S, e, eventType, d, fuel) ==
    IF parent[e] # None
    THEN IF fuel = 0 THEN [S EXCEPT !.err = "RangeError"]
         ELSE Fire(S, parent[e], eventType, d, fuel - 1)
    ELSE Fire_(S, e, eventType, d)

\* ------------------------------------------------------ Eventable.once
\* A closure is alive while some chain holds it; the ids of dead closures
\* are given out again.
Held(em, w) ==
    \E e \in Emitters, k \in Tokens : \E i \in 1..Len(em[e].ch[k].subs) :
        em[e].ch[k].subs[i].handler = Wrap(w)

\* The history of a closure is kept while a closure of the same once call
\* is held.
Live(em, tab, w) ==
    \/ Held(em, w)
    \/ \E v \in WIds : /\ Held(em, v)
                       /\ tab[w].reg # 0
                       /\ tab[v].reg = tab[w].reg

FreeIds(em, tab) == {w \in WIds : ~Live(em, tab, w)}

\* _wrapOnceHandler(evtType, handler, context) called on emitter me: the
\* closure, with called = false, under a free id.
WrapOnceHandler(R, w, me, evtType, h, ctx) ==
    [R EXCEPT !.tab[w] = [me |-> me, evtType |-> evtType, handler |-> h, context |-> ctx,
                          reg |-> IF R.reg = 0 THEN w ELSE R.reg],
              !.reg = IF R.reg = 0 THEN w ELSE R.reg,
              !.called = @ \ {w},
              !.invoked[w] = 0]

\* The loop of once over the split tokens: a closure of its own per token,
\* registered with on(token, closure) and no context.
RECURSIVE OnceLoop(_, _, _, _, _, _)
OnceLoop(R, e, evetTypes, i, h, ctx) ==
    IF i > Len(evetTypes) THEN R
    ELSE LET w == CHOOSE k \in FreeIds(R.em, R.tab) : \A j \in FreeIds(R.em, R.tab) : k <= j
             R1 == WrapOnceHandler(R, w, e, evetTypes[i], h, ctx)
         IN  OnceLoop([R1 EXCEPT !.em[e] = On(R1.em[e], e, <<evetTypes[i]>>, Wrap(w), None)],
                      e, evetTypes, i + 1, h, ctx)

\* ----------------------------------------------------- the bus' actions
\* History of an on / off call that keeps its arguments: the type list,
\* the handler, the context as resolved, and the emitter's map before.
NoCall == [rec |-> FALSE, types |-> <<>>, h |-> NoHandler, ctx |-> None,
           before |-> NoEventMap]
Call(e, types, h, ctx) ==
    [rec |-> TRUE, types |-> types, h |-> h,
     ctx |-> IF ctx = None THEN e ELSE ctx, before |-> evmap[e]]

NoTrace ==
    [op |-> "init", e |-> None, type |-> None, dup |-> FALSE,
     pre |-> [x \in Emitters |-> <<>>], log |-> <<>>, err |-> None,
     arg |-> NoParam, param |-> NoParam, stops |-> <<>>,
     noarg |-> FALSE, kept |-> FALSE, call |-> NoCall, ret |-> 0,
     from |-> None, tbefore |-> NoEventMap]

TotalSubs(em) ==
    Cardinality(UNION {UNION {{<<e, k, i>> : i \in 1..Len(em[e].ch[k].subs)}
                              : k \in Tokens} : e \in Emitters})

\* Closures no chain holds any more are unreachable: collected before the
\* next call.
GcTab == [w \in WIds |-> IF Live(evmap, onceTab, w) THEN onceTab[w] ELSE NoClosure]
GcCalled == {w \in called : Live(evmap, onceTab, w)}
GcInvoked == [w \in WIds |-> IF Live(evmap, onceTab, w) THEN invoked[w] ELSE 0]

Gc ==
    /\ onceTab' = GcTab
    /\ called' = GcCalled
    /\ invoked' = GcInvoked

\* e.on(types, h, ctx)
OnStep(e, types, h, ctx, call) ==
    /\ evmap' = [evmap EXCEPT ![e] = On(evmap[e], e, types, h, ctx)]
    /\ TotalSubs(evmap') <= MaxSubs
    /\ trace' = [NoTrace EXCEPT !.op = "on", !.e = e, !.call = call,
                   !.noarg = (types = <<>> \/ h = NoHandler),
                   !.kept = (evmap' = evmap),
                   !.dup = \E i \in 1..Len(types) :
                             HasSub(evmap[e].ch[toLowerCase(types[i])].subs, h,
                                    IF ctx = None THEN e ELSE ctx)]
    /\ Gc
    /\ UNCHANGED parent
    /\ UNCHANGED <<toolVars, uiVars>>

OnAct(e, types, h, ctx) ==
    /\ e \in Emitters
    /\ OnStep(e, types, h, ctx, NoCall)

OnListAct(e, types, h, ctx) ==
    /\ e \in Emitters
    /\ OnStep(e, types, h, ctx, Call(e, types, h, ctx))

\* e.off(types, h, ctx)
OffStep(e, types, h, ctx, call) ==
    /\ evmap' = [evmap EXCEPT ![e] = Off(evmap[e], e, types, h, ctx)]
    /\ trace' = [NoTrace EXCEPT !.op = "off", !.e = e, !.call = call,
                   !.noarg = (types = <<>> \/ h = NoHandler),
                   !.kept = (evmap' = evmap)]
    /\ Gc
    /\ UNCHANGED parent
    /\ UNCHANGED <<toolVars, uiVars>>

OffAct(e, types, h, ctx) ==
    /\ e \in Emitters
    /\ OffStep(e, types, h, ctx, NoCall)

OffListAct(e, types, h, ctx) ==
    /\ e \in Emitters
    /\ OffStep(e, types, h, ctx, Call(e, types, h, ctx))

\* e.copyEventListeners(target); call: what the history keeps of the maps
\* of e and target before the call.
CopyStep(e, target, call, from, tbefore) ==
    /\ evmap' = [evmap EXCEPT ![e] = CopyEventListeners(evmap[e], e, evmap[target])]
    /\ TotalSubs(evmap') <= MaxSubs
    /\ trace' = [NoTrace EXCEPT !.op = "copy", !.e = e, !.call = call,
                   !.from = from, !.tbefore = tbefore,
                   !.err = IF CopyThrows(evmap[target]) THEN "TypeError" ELSE None]
    /\ Gc
    /\ UNCHANGED parent
    /\ UNCHANGED <<toolVars, uiVars>>

CopyAct(e, target) ==
    /\ e \in Emitters
    /\ CopyStep(e, target, NoCall, None, NoEventMap)

CopyRecAct(e, target) ==
    /\ e \in Emitters
    /\ CopyStep(e, target, [NoCall EXCEPT !.rec = TRUE, !.before = evmap[e]],
                target, evmap[target])

\* e._clearListeners(type)
ClearAct(e, type) ==
    /\ evmap' = [evmap EXCEPT ![e] = ClearListeners(evmap[e], type)]
    /\ trace' = [NoTrace EXCEPT !.op = "clear", !.e = e, !.type = type]
    /\ Gc
    /\ UNCHANGED parent
    /\ UNCHANGED <<toolVars, uiVars>>

\* e._clearAllListeners()
ClearAllAct(e) ==
    /\ evmap' = [evmap EXCEPT ![e] = ClearAllListeners(evmap[e])]
    /\ trace' = [NoTrace EXCEPT !.op = "clearAll", !.e = e]
    /\ Gc
    /\ UNCHANGED parent
    /\ UNCHANGED <<toolVars, uiVars>>

\* e.once(types, h, ctx)
OnceAct(e, types, h, ctx) ==
    /\ Cardinality(FreeIds(evmap, onceTab)) >= Len(types)
    /\ LET R == OnceLoop([em |-> evmap, tab |-> GcTab, called |-> GcCalled,
                          invoked |-> GcInvoked, reg |-> 0], e, types, 1, h, ctx)
       IN  /\ TotalSubs(R.em) <= MaxSubs
           /\ evmap' = R.em
           /\ onceTab' = R.tab
           /\ called' = R.called
           /\ invoked' = R.invoked
    /\ trace' = [NoTrace EXCEPT !.op = "once", !.e = e,
                   !.noarg = (types = <<>> \/ h = NoHandler),
                   !.kept = (evmap' = evmap)]
    /\ UNCHANGED parent
    /\ UNCHANGED <<toolVars, uiVars>>

\* e.listens(type, h, ctx): a query; the history keeps its arguments as
\* passed and the number returned.
ListensAct(e, type, h, ctx) ==
    /\ e \in Emitters
    /\ trace' = [NoTrace EXCEPT !.op = "listens", !.e = e, !.type = type,
                   !.call = [NoCall EXCEPT !.rec = TRUE, !.h = h, !.ctx = ctx],
                   !.kept = TRUE,
                   !.ret = Listens(evmap[e], type, h, ctx)]
    /\ Gc
    /\ UNCHANGED <<evmap, parent>>
    /\ UNCHANGED <<toolVars, uiVars>>

\* e._setEventParent(p)
SetEventParent(e, p) ==
    /\ parent' = [parent EXCEPT ![e] = p]
    /\ trace' = [NoTrace EXCEPT !.op = "setEventParent", !.e = e]
    /\ Gc
    /\ UNCHANGED evmap
    /\ UNCHANGED <<toolVars, uiVars>>

\* e.fire(type, param): arg is the object the caller passes (NoParam: none);
\* the history keeps it as passed and as the call left it.
FireStep(e, type, arg) ==
    LET S == Fire([em |-> evmap, called |-> GcCalled, invoked |-> GcInvoked,
                   log |-> <<>>, err |-> None, param |-> arg, stops |-> <<>>],
                  e, type, 0, Cardinality(Emitters))
    IN  /\ evmap' = S.em
        /\ called' = S.called
        /\ invoked' = S.invoked
        /\ onceTab' = GcTab
        /\ trace' = [NoTrace EXCEPT !.op = "fire", !.e = e, !.type = type,
                       !.pre = [x \in Emitters |->
                                   evmap[x].ch[toLowerCase(type)].subs],
                       !.log = S.log, !.err = S.err,
                       !.arg = arg, !.param = S.param, !.stops = S.stops]
        /\ UNCHANGED parent
        /\ UNCHANGED <<toolVars, uiVars>>

\* e.fire(type)
FireAct(e, type) ==
    /\ e \in Emitters
    /\ FireStep(e, type, NoParam)

\* e.fire(type, param) with a payload object of the caller
FireParamAct(e, type, domEvent) ==
    /\ e \in Emitters
    /\ FireStep(e, type, Param(domEvent))

\* ================================================================ MapTool
Hosts == {"M1", "M2"}
\* Tools of one concrete type (one name, so one slot key per map).
Tools == {"T1", "T2"}

\* Enable / disable events one tool fires in a behaviour.
MaxToolEvents == 4

\* getEvents(): the event map of the concrete tool type.
ToolEvents ==
    <<[type |-> "mousemove", handler |-> Fn("onMouseMove")],
      [type |-> "click", handler |-> Fn("onClick")]>>

\* _switch(to, eventKeys, context) of the map: to(p, eventKeys[p], context)
\* for every key p.
RECURSIVE Switch(_, _, _, _, _, _)
Switch(m, self, to, eventKeys, context, i) ==
    IF i > Len(eventKeys) THEN m
    ELSE Switch(IF to = "on"
                THEN On(m, self, <<eventKeys[i].type>>, eventKeys[i].handler, context)
                ELSE Off(m, self, <<eventKeys[i].type>>, eventKeys[i].handler, context),
                self, to, eventKeys, context, i + 1)

\* map.on(events, tool) and map.off(events, tool) with an event map for
\* first argument: the guards of on / off, then _switch.
OnMap(m, self, eventKeys, context) ==
    IF eventKeys = <<>> \/ context = None THEN m
    ELSE Switch(m, self, "on", eventKeys, context, 1)

OffMap(m, self, eventKeys, context) ==
    IF eventKeys = <<>> \/ ~m.has \/ context = None THEN m
    ELSE Switch(m, self, "off", eventKeys, context, 1)

\* MapTool._switchEvents(to) of tool t.
ToolSwitchEvents(T, t, to) ==
    LET map == T.tmap[t]
    IN  [T EXCEPT !.hmap[map] = IF to = "on"
                                THEN OnMap(T.hmap[map], map, ToolEvents, t)
                                ELSE OffMap(T.hmap[map], map, ToolEvents, t)]

\* _fireEvent(eventName) of tool t.
ToolFireEvent(T, t, eventName) ==
    [T EXCEPT !.ev = Append(@, [tool |-> t, name |-> eventName])]

\* enable that fires its event whatever the state.
ToolEnableNoGuard(T, t) ==
    IF T.tmap[t] = None THEN T
    ELSE ToolFireEvent(
             ToolSwitchEvents(ToolSwitchEvents([T EXCEPT !.en[t] = TRUE], t, "off"), t, "on"),
             t, "enable")

\* MapTool.enable
ToolEnable(T, t) ==
    IF T.tmap[t] = None \/ T.en[t] THEN T
    ELSE ToolFireEvent(
             ToolSwitchEvents(ToolSwitchEvents([T EXCEPT !.en[t] = TRUE], t, "off"), t, "on"),
             t, "enable")

\* MapTool.disable
ToolDisable(T, t) ==
    IF ~T.en[t] \/ T.tmap[t] = None THEN T
    ELSE ToolFireEvent(ToolSwitchEvents([T EXCEPT !.en[t] = FALSE], t, "off"),
                       t, "disable")

\* addTo that leaves the tool found in the slot as it is.
ToolAddToKeepOccupant(T, t, map) ==
    LET T1 == [T EXCEPT !.tmap[t] = map]
        T3 == ToolEnable(T1, t)
    IN  ToolFireEvent([T3 EXCEPT !.slot[map] = t], t, "add")

\* MapTool.addTo(map), map given
ToolAddTo(T, t, map) ==
    LET T1 == [T EXCEPT !.tmap[t] = map]
        T2 == IF T1.slot[map] # None THEN ToolDisable(T1, T1.slot[map]) ELSE T1
        T3 == ToolEnable(T2, t)
    IN  ToolFireEvent([T3 EXCEPT !.slot[map] = t], t, "add")

\* MapTool.getMap
ToolGetMap(T, t) == T.tmap[t]

\* MapTool.isEnabled
IsEnabled(t) == IF ~tenabled[t] THEN FALSE ELSE TRUE

\* The tool's event set as registered on map h: how many of its entries
\* the map's chains hold.
Registered(m, t) ==
    Cardinality({i \in 1..Len(ToolEvents) :
                    HasSub(m.ch[ToolEvents[i].type].subs, ToolEvents[i].handler, t)})

ToolState == [tmap |-> tmap, en |-> tenabled, slot |-> slot, hmap |-> hmap, ev |-> <<>>]

NoToolTrace ==
    [op |-> "init", t |-> None, h |-> None, prev |-> None, prevOn |-> FALSE,
     noop |-> FALSE, ev |-> <<>>]

\* The enable / disable events of tool t among the events ev, in order.
EnDis(ev, t) ==
    SelectSeq(ev, LAMBDA x : x.tool = t /\ x.name \in {"enable", "disable"})

Names(ev) == [i \in 1..Len(ev) |-> ev[i].name]

ToolStep(T, tr) ==
    /\ tmap' = T.tmap
    /\ tenabled' = T.en
    /\ slot' = T.slot
    /\ hmap' = T.hmap
    /\ elog' = [t \in Tools |-> elog[t] \o Names(EnDis(T.ev, t))]
    /\ \A t \in Tools : Len(elog'[t]) <= MaxToolEvents
    /\ ttrace' = [tr EXCEPT !.ev = T.ev]
    /\ UNCHANGED <<busVars, uiVars>>

\* t.addTo(h); addTo(undefined) returns at once and is left out.
AddToAct(t, h) ==
    /\ h # None
    /\ ToolStep(ToolAddTo(ToolState, t, h),
                [NoToolTrace EXCEPT !.op = "addTo", !.t = t, !.h = h, !.prev = slot[h],
                    !.prevOn = (slot[h] # None /\ tenabled[slot[h]] /\ tmap[slot[h]] = h)])

\* t.enable()
EnableAct(t) ==
    /\ t \in Tools
    /\ ToolStep(ToolEnable(ToolState, t),
                [NoToolTrace EXCEPT !.op = "enable", !.t = t,
                    !.noop = (tenabled[t] \/ tmap[t] = None)])

\* t.disable()
DisableAct(t) ==
    /\ t \in Tools
    /\ ToolStep(ToolDisable(ToolState, t),
                [NoToolTrace EXCEPT !.op = "disable", !.t = t,
                    !.noop = (~tenabled[t] \/ tmap[t] = None)])

\* ============================================================ UIComponent
\* Overlays of one concrete class on the maps; the element ids buildOn can
\* hand out (an element no object and no container holds is gone).
\* O1 and O2 are of the default singleton kind; O3 is of a class built with
\* single: false that has an onRemove hook.
Overlays == {"O1", "O2", "O3"}
MaxDom == 4
DomIds == 1..MaxDom
\* Zoom levels of a map's view.
MaxZoom == 1
Zooms == 0..MaxZoom

Coords == {[x |-> 1, y |-> 1], [x |-> 2, y |-> 3]}
NoCoord == [x |-> -1, y |-> -1]

\* options.single (true by default), options.dx, options.dy (0 by default)
Single(o) == o # "O3"
\* options.autoPan (false by default); O3's class sets it.
AutoPan(o) == o = "O3"
\* Whether the overlay's class defines onRemove.
HasOnRemove(o) == o = "O3"
Dx(o) == IF o = "O2" THEN 3 ELSE 0
Dy(o) == IF o = "O2" THEN 5 ELSE 0

\* getOffset() of the concrete class.
OffsetX == -2
OffsetY == -7

\* map.coordinateToViewPoint(c) under zoom z.
Pow2(z) == IF z = 0 THEN 1 ELSE IF z = 1 THEN 2 ELSE IF z = 2 THEN 4 ELSE 8
Project(z, c) == [x |-> c.x * Pow2(z) * 16, y |-> c.y * Pow2(z) * 16]

OffScreen == -99999

NoDom == [live |-> FALSE, by |-> None, parent |-> None, display |-> "none",
          left |-> 0, top |-> 0]

\* The events _switchEvents registers: _getDefaultEvents().
DefaultEvents ==
    <<[type |-> "zooming", handler |-> Fn("onZooming")],
      [type |-> "zoomend", handler |-> Fn("onZoomEnd")]>>

UiFire(U, o, name) == [U EXCEPT !.ev = Append(@, [ui |-> o, name |-> name])]

\* UIComponent._switchEvents(to): map[to](p, events[p], this) per key.
UiSwitchEvents(U, o, to) ==
    LET map == U.owner[o]
    IN  [U EXCEPT !.hmap[map] = Switch(U.hmap[map], map, to, DefaultEvents, o, 1)]

\* Z.DomUtil.removeDomNode(node)
RemoveDomNode(U, id) ==
    [U EXCEPT !.dom[id].parent = None, !.ops = Append(@, [op |-> "remove", id |-> id])]

\* container.appendChild(node)
AppendChild(U, map, id) ==
    [U EXCEPT !.dom[id].parent = map, !.ops = Append(@, [op |-> "append", id |-> id])]

\* _removePrevDOM forgetting the cached element without detaching it.
UiRemovePrevDOMKeepNode(U, o) ==
    IF Single(o)
    THEN LET map == U.owner[o]
             U1 == IF U.cache[map] # 0 THEN [U EXCEPT !.cache[map] = 0] ELSE U
         IN  [U1 EXCEPT !.uiDOM[o] = 0]
    ELSE IF U.uiDOM[o] # 0
         THEN [RemoveDomNode(U, U.uiDOM[o]) EXCEPT !.uiDOM[o] = 0]
         ELSE U

\* UIComponent._removePrevDOM
UiRemovePrevDOM(U, o) ==
    IF Single(o)
    THEN LET map == U.owner[o]
             U1 == IF U.cache[map] # 0
                   THEN [RemoveDomNode(U, U.cache[map]) EXCEPT !.cache[map] = 0]
                   ELSE U
         IN  [U1 EXCEPT !.uiDOM[o] = 0]
    ELSE IF U.uiDOM[o] # 0
         THEN [RemoveDomNode(U, U.uiDOM[o]) EXCEPT !.uiDOM[o] = 0]
         ELSE U

\* UIComponent._getViewPoint
UiGetViewPoint(U, o) ==
    LET p == Project(U.view[U.owner[o]], U.coord[o])
    IN  [x |-> p.x + Dx(o), y |-> p.y + Dy(o)]

\* UIComponent.getPosition
UiGetPosition(U, o) ==
    LET p == UiGetViewPoint(U, o)
    IN  [x |-> p.x + OffsetX, y |-> p.y + OffsetY]

\* UIComponent.isVisible
UiIsVisible(U, o) == U.uiDOM[o] # 0 /\ U.dom[U.uiDOM[o]].display # "none"

FreeDom(U) == {id \in DomIds : ~U.dom[id].live}

\* UIComponent._measureSize(dom) on the element just built
UiMeasureSize(U, o, id) ==
    LET U1 == [U EXCEPT !.dom[id].left = OffScreen, !.dom[id].top = OffScreen,
                        !.dom[id].display = ""]
        U2 == AppendChild(U1, U.owner[o], id)
    IN  [U2 EXCEPT !.dom[id].display = "none"]

\* What _autoPan reads of the map and of the element when show runs:
\* map._moving, map._panAnimating, the offset of the view panel in the
\* container, dom.clientWidth / clientHeight (even, so that clientWidth / 2
\* is whole) and map.getSize().
DefaultEnv ==
    [moving |-> FALSE, panning |-> FALSE, ox |-> 0, oy |-> 0,
     w |-> 20, h |-> 10, mapW |-> 100, mapH |-> 80]

\* map.viewPointToContainerPoint(point)
ViewPointToContainerPoint(env, point) ==
    [x |-> point.x + env.ox, y |-> point.y + env.oy]

\* map._panAnimation(offset, t)
PanAnimation(U, left, top, t) ==
    [U EXCEPT !.pans = Append(@, [x |-> left, y |-> top, t |-> t])]

\* _autoPan panning also while the map moves or pans.
UiAutoPanWhileBusy(U, o) ==
    LET env == U.env
        id == U.uiDOM[o]
        containerPoint ==
            ViewPointToContainerPoint(env, [x |-> U.dom[id].left, y |-> U.dom[id].top])
        left == IF containerPoint.x < 0
                THEN -(containerPoint.x - env.w \div 2)
                ELSE IF containerPoint.x + env.w - 35 > env.mapW
                THEN env.mapW - (containerPoint.x + (env.w * 3) \div 2)
                ELSE 0
        top == IF containerPoint.y < 0
               THEN -containerPoint.y + 50
               ELSE IF containerPoint.y > env.mapH
               THEN (env.mapH - containerPoint.y - env.h) - 30
               ELSE 0
    IN  IF top # 0 \/ left # 0 THEN PanAnimation(U, left, top, 600) ELSE U

\* UIComponent._autoPan; style.left and style.top hold whole pixels, which
\* parseInt gives back.
UiAutoPan(U, o) ==
    LET env == U.env
        id == U.uiDOM[o]
    IN  IF env.moving \/ env.panning THEN U
        ELSE
        LET containerPoint ==
                ViewPointToContainerPoint(env, [x |-> U.dom[id].left, y |-> U.dom[id].top])
            left == IF containerPoint.x < 0
                    THEN -(containerPoint.x - env.w \div 2)
                    ELSE IF containerPoint.x + env.w - 35 > env.mapW
                    THEN env.mapW - (containerPoint.x + (env.w * 3) \div 2)
                    ELSE 0
            top == IF containerPoint.y < 0
                   THEN -containerPoint.y + 50
                   ELSE IF containerPoint.y > env.mapH
                   THEN (env.mapH - containerPoint.y - env.h) - 30
                   ELSE 0
        IN  IF top # 0 \/ left # 0 THEN PanAnimation(U, left, top, 600) ELSE U

\* show returning without showend when buildOn yields nothing.
UiShowBodyNoEnd(U, o, coordinate, built) ==
    LET U1 == UiFire(U, o, "showstart")
    IN  IF U1.owner[o] = None THEN [U1 EXCEPT !.err = "TypeError"]
        ELSE
        LET map == U1.owner[o]
            U2 == IF U1.uiDOM[o] = 0 THEN UiSwitchEvents(U1, o, "on") ELSE U1
            U3 == [U2 EXCEPT !.coord[o] = coordinate]
            U4 == UiRemovePrevDOM(U3, o)
        IN  IF ~built THEN U4
            ELSE
            LET id == CHOOSE k \in FreeDom(U4) : \A j \in FreeDom(U4) : k <= j
                U5 == [U4 EXCEPT !.dom[id] = [NoDom EXCEPT !.live = TRUE, !.by = o],
                                 !.uiDOM[o] = id]
                U6 == UiMeasureSize(U5, o, id)
                U7 == IF Single(o) THEN [U6 EXCEPT !.cache[map] = id] ELSE U6
                point == UiGetPosition(U7, o)
                U8 == [U7 EXCEPT !.dom[id].left = point.x, !.dom[id].top = point.y,
                                 !.dom[id].display = ""]
                U9 == AppendChild(U8, map, id)
                U10 == IF AutoPan(o) THEN UiAutoPan(U9, o) ELSE U9
            IN  UiFire(U10, o, "showend")

\* show from fire('showstart') on, the coordinate settled; built: whether
\* buildOn returns an element.
UiShowBody(U, o, coordinate, built) ==
    LET U1 == UiFire(U, o, "showstart")
    IN  IF U1.owner[o] = None THEN [U1 EXCEPT !.err = "TypeError"]
        ELSE
        LET map == U1.owner[o]
            U2 == IF U1.uiDOM[o] = 0 THEN UiSwitchEvents(U1, o, "on") ELSE U1
            U3 == [U2 EXCEPT !.coord[o] = coordinate]
            U4 == UiRemovePrevDOM(U3, o)
        IN  IF ~built THEN UiFire(U4, o, "showend")
            ELSE
            LET id == CHOOSE k \in FreeDom(U4) : \A j \in FreeDom(U4) : k <= j
                U5 == [U4 EXCEPT !.dom[id] = [NoDom EXCEPT !.live = TRUE, !.by = o],
                                 !.uiDOM[o] = id]
                U6 == UiMeasureSize(U5, o, id)
                U7 == IF Single(o) THEN [U6 EXCEPT !.cache[map] = id] ELSE U6
                point == UiGetPosition(U7, o)
                U8 == [U7 EXCEPT !.dom[id].left = point.x, !.dom[id].top = point.y,
                                 !.dom[id].display = ""]
                U9 == AppendChild(U8, map, id)
                U10 == IF AutoPan(o) THEN UiAutoPan(U9, o) ELSE U9
            IN  UiFire(U10, o, "showend")

\* show checking for a coordinate only after showstart was fired.
UiShowLateCheck(U, o, c, built) ==
    IF c = NoCoord /\ U.coord[o] = NoCoord
    THEN [UiFire(U, o, "showstart") EXCEPT !.err = "Error"]
    ELSE UiShowBody(U, o, IF c = NoCoord THEN U.coord[o] ELSE c, built)

\* UIComponent.show(coordinate); NoCoord: called without one.
UiShow(U, o, c, built) ==
    IF c = NoCoord /\ U.coord[o] = NoCoord THEN [U EXCEPT !.err = "Error"]
    ELSE UiShowBody(U, o, IF c = NoCoord THEN U.coord[o] ELSE c, built)

\* hide firing its event also when the overlay has no element.
UiHideAlwaysFires(U, o) ==
    IF U.uiDOM[o] = 0 THEN UiFire(U, o, "hide")
    ELSE UiFire([U EXCEPT !.dom[U.uiDOM[o]].display = "none"], o, "hide")

\* UIComponent.hide
UiHide(U, o) ==
    IF U.uiDOM[o] = 0 THEN U
    ELSE UiFire([U EXCEPT !.dom[U.uiDOM[o]].display = "none"], o, "hide")

\* remove leaving a non-singleton overlay's element where it is.
UiRemoveKeepDom(U, o) ==
    LET U1 == UiHide(U, o)
    IN  IF U1.owner[o] = None THEN [U1 EXCEPT !.err = "TypeError"]
        ELSE
        LET U2 == UiSwitchEvents(U1, o, "off")
            U2h == IF HasOnRemove(o) THEN UiFire(U2, o, "onRemove") ELSE U2
        IN  UiFire([U2h EXCEPT !.owner[o] = None], o, "remove")

\* UIComponent.remove; a call of the onRemove hook is kept among the events.
UiRemove(U, o) ==
    LET U1 == UiHide(U, o)
    IN  IF U1.owner[o] = None THEN [U1 EXCEPT !.err = "TypeError"]
        ELSE
        LET U2 == UiSwitchEvents(U1, o, "off")
            U2h == IF HasOnRemove(o) THEN UiFire(U2, o, "onRemove") ELSE U2
            U3 == IF ~Single(o) /\ U2h.uiDOM[o] # 0 THEN UiRemovePrevDOM(U2h, o) ELSE U2h
        IN  UiFire([U3 EXCEPT !.owner[o] = None], o, "remove")

\* Geometry._unbindInfoWindow with the info window o bound:
\* closeInfoWindow() (o.hide()), then o.remove().
UnbindInfoWindow(U, o) ==
    LET U1 == UiHide(U, o)
    IN  IF U1.err # None THEN U1 ELSE UiRemove(U1, o)

\* UIComponent.addTo(owner)
UiAddTo(U, o, h) == UiFire([U EXCEPT !.owner[o] = h], o, "add")

\* onZoomEnd writing the projected point without the class' offset.
UiOnZoomEndNoOffset(U, o) ==
    IF ~UiIsVisible(U, o) \/ U.uiDOM[o] = 0 THEN U
    ELSE IF U.owner[o] = None THEN [U EXCEPT !.err = "TypeError"]
    ELSE LET p == UiGetViewPoint(U, o)
         IN  [U EXCEPT !.dom[U.uiDOM[o]].left = p.x, !.dom[U.uiDOM[o]].top = p.y,
                       !.ran = @ \cup {o}]

\* UIComponent.onZoomEnd, called with this = o
UiOnZoomEnd(U, o) ==
    IF ~UiIsVisible(U, o) \/ U.uiDOM[o] = 0 THEN U
    ELSE IF U.owner[o] = None THEN [U EXCEPT !.err = "TypeError"]
    ELSE LET p == UiGetPosition(U, o)
         IN  [U EXCEPT !.dom[U.uiDOM[o]].left = p.x, !.dom[U.uiDOM[o]].top = p.y,
                       !.ran = @ \cup {o}]

\* The map's _fire('zoomend') loop over a copy of the chain.
RECURSIVE HostRunQueue(_, _, _)
HostRunQueue(U, queue, i) ==
    IF i > Len(queue) \/ U.err # None THEN U
    ELSE HostRunQueue(IF queue[i].handler = Fn("onZoomEnd")
                      THEN UiOnZoomEnd(U, queue[i].context)
                      ELSE U,
                      queue, i + 1)

\* The map ending a zoom at level z: the view changes, zoomend is fired.
HostZoomEnd(U, h, z) ==
    LET U1 == [U EXCEPT !.view[h] = z]
    IN  IF ~U1.hmap[h].has \/ U1.hmap[h].ch["zoomend"].st # "array" THEN U1
        ELSE HostRunQueue(U1, U1.hmap[h].ch["zoomend"].subs, 1)

\* ---- overlay actions: one whole call each
UiState ==
    [owner |-> owner, coord |-> coord, uiDOM |-> uiDOM, dom |-> dom,
     cache |-> cache, view |-> view, hmap |-> hmap,
     ev |-> <<>>, ops |-> <<>>, ran |-> {}, err |-> None,
     pans |-> <<>>, env |-> DefaultEnv]

NoUiTrace ==
    [op |-> "none", o |-> None, h |-> None, built |-> FALSE, prev |-> 0,
     ev |-> <<>>, ops |-> <<>>, ran |-> {}, err |-> None,
     c |-> NoCoord, pc |-> NoCoord, kept |-> FALSE, had |-> 0,
     pans |-> <<>>, env |-> DefaultEnv]

\* An element that no overlay, no map and no container holds is unreachable.
UiGc(U) ==
    [id \in DomIds |->
        IF /\ U.dom[id].live
           /\ U.dom[id].parent = None
           /\ \A o \in Overlays : U.uiDOM[o] # id
           /\ \A h \in Hosts : U.cache[h] # id
        THEN NoDom ELSE U.dom[id]]

UiStep(U, tr) ==
    /\ owner' = U.owner
    /\ coord' = U.coord
    /\ uiDOM' = U.uiDOM
    /\ dom' = UiGc(U)
    /\ cache' = U.cache
    /\ view' = U.view
    /\ hmap' = U.hmap
    /\ utrace' = [tr EXCEPT !.ev = U.ev, !.ops = U.ops, !.ran = U.ran, !.err = U.err,
                            !.pans = U.pans, !.env = U.env,
                            !.kept = (<<owner', coord', uiDOM', dom', cache', view', hmap'>>
                                      = <<owner, coord, uiDOM, dom, cache, view, hmap>>)]
    /\ UNCHANGED <<busVars, tmap, tenabled, slot, elog, ttrace>>

UiAddToAct(o, h) ==
    /\ h \in Hosts
    /\ UiStep(UiAddTo(UiState, o, h), [NoUiTrace EXCEPT !.op = "addTo", !.o = o, !.h = h])
    /\ UNCHANGED lastShow

\* o.show(c) while the map and the element are as env tells.
ShowStep(o, c, built, env) ==
    /\ LET U == UiShow([UiState EXCEPT !.env = env], o, c, built)
       IN  /\ UiStep(U, [NoUiTrace EXCEPT !.op = "show", !.o = o, !.h = owner[o],
                                          !.built = built, !.c = c, !.pc = coord[o],
                                          !.prev = IF owner[o] = None THEN 0
                                                   ELSE cache[owner[o]]])
           /\ lastShow' = IF U.err = None
                          THEN [lastShow EXCEPT ![owner[o]] = o]
                          ELSE lastShow

ShowAct(o, c, built) ==
    /\ FreeDom(UiState) # {}
    /\ ShowStep(o, c, built, DefaultEnv)

PanShowAct(o, c, built, env) ==
    /\ FreeDom(UiState) # {}
    /\ ShowStep(o, c, built, env)

HideAct(o) ==
    /\ o \in Overlays
    /\ UiStep(UiHide(UiState, o), [NoUiTrace EXCEPT !.op = "hide", !.o = o, !.h = owner[o]])
    /\ UNCHANGED lastShow

RemoveAct(o) ==
    /\ o \in Overlays
    /\ UiStep(UiRemove(UiState, o), [NoUiTrace EXCEPT !.op = "remove", !.o = o, !.h = owner[o],
                                                     !.had = uiDOM[o]])
    /\ UNCHANGED lastShow

\* The geometry owning info window o unbinds it.
UnbindAct(o) ==
    /\ o \in Overlays
    /\ UiStep(UnbindInfoWindow(UiState, o),
              [NoUiTrace EXCEPT !.op = "unbind", !.o = o, !.h = owner[o], !.had = uiDOM[o]])
    /\ UNCHANGED lastShow

ZoomEndAct(h, z) ==
    /\ z # view[h]
    /\ UiStep(HostZoomEnd(UiState, h, z), [NoUiTrace EXCEPT !.op = "zoomend", !.h = h])
    /\ UNCHANGED lastShow

UiInit ==
    /\ owner = [o \in Overlays |-> None]
    /\ coord = [o \in Overlays |-> NoCoord]
    /\ uiDOM = [o \in Overlays |-> 0]
    /\ dom = [id \in DomIds |-> NoDom]
    /\ cache = [h \in Hosts |-> 0]
    /\ view = [h \in Hosts |-> 0]
    /\ lastShow = [h \in Hosts |-> None]
    /\ utrace = NoUiTrace

ToolInit ==
    /\ tmap = [t \in Tools |-> None]
    /\ tenabled = [t \in Tools |-> FALSE]
    /\ slot = [h \in Hosts |-> None]
    /\ hmap = [h \in Hosts |-> NoEventMap]
    /\ elog = [t \in Tools |-> <<>>]
    /\ ttrace = NoToolTrace

BusInit ==
    /\ evmap = [e \in Emitters |-> NoEventMap]
    /\ parent = [e \in Emitters |-> None]
    /\ onceTab = [w \in WIds |-> NoClosure]
    /\ called = {}
    /\ invoked = [w \in WIds |-> 0]
    /\ trace = NoTrace

Init == BusInit /\ ToolInit /\ UiInit

Contexts == Emitters \cup {None}

\* Registration, removal, once, copy and dispatch of one plain handler
\* under every context, on two emitters.
Next ==
    \/ \E e \in Emitters, t \in TypeLists, c \in Contexts : OnAct(e, t, Fn("h1"), c)
    \/ \E e \in Emitters, t \in TypeLists, c \in Contexts : OffAct(e, t, Fn("h1"), c)
    \/ \E e \in Emitters : OnceAct(e, <<"a">>, Fn("h1"), None)
    \/ \E e \in Emitters, x \in Emitters : CopyAct(e, x)
    \/ \E e \in Emitters, t \in {"A", "b"} : FireAct(e, t)

Spec == Init /\ [][Next]_vars

\* Dispatch with handlers that change the chain being dispatched.
SnapNext ==
    \/ \E t \in {<<"a">>, <<"A">>, <<"a", "b">>}, h \in {Fn("h1"), Fn("h2"), Fn("h3")} :
          OnAct("A", t, h, None)
    \/ \E t \in {<<"a">>, <<"a", "b">>}, h \in {Fn("h1"), Fn("h2"), Fn("h3")} :
          OffAct("A", t, h, None)
    \/ \E t \in Tokens : FireAct("A", t)

SpecSnap == Init /\ [][SnapNext]_vars

\* once with a plain and a re-firing handler.
OnceNext ==
    \/ \E e \in Emitters, h \in {Fn("h1"), Fn("h4")}, c \in {None, "B"} :
          OnceAct(e, <<"a">>, h, c)
    \/ \E e \in Emitters, h \in {Fn("h1"), Fn("h4")} : OnAct(e, <<"a">>, h, None)
    \/ \E e \in Emitters, h \in {Fn("h1"), Fn("h4")} : OffAct(e, <<"a">>, h, None)
    \/ \E e \in Emitters, t \in {"a", "A"} : FireAct(e, t)

SpecOnce == Init /\ [][OnceNext]_vars

\* Delegation: fire forwarded to the event parent.
DelegNext ==
    \/ \E e \in Emitters, p \in Contexts : SetEventParent(e, p)
    \/ \E e \in Emitters, h \in {Fn("h1"), Fn("h2")}, c \in {None, "B"} :
          OnAct(e, <<"a">>, h, c)
    \/ \E e \in Emitters, h \in {Fn("h1"), Fn("h2")}, c \in {None, "B"} :
          OffAct(e, <<"a">>, h, c)
    \/ \E e \in Emitters, t \in {"a", "A"} : FireAct(e, t)

SpecDeleg == Init /\ [][DelegNext]_vars

\* Dispatch of handlers that return false, 0 or nothing, with and without
\* a DOM event in the payload.
BubbleNext ==
    \/ \E e \in Emitters, h \in {Fn("h1"), Fn("h5"), Fn("h6")} : OnAct(e, <<"a">>, h, None)
    \/ \E e \in Emitters, h \in {Fn("h1"), Fn("h5"), Fn("h6")} : OffAct(e, <<"a">>, h, None)
    \/ \E e \in Emitters : OnceAct(e, <<"a">>, Fn("h5"), None)
    \/ \E e \in Emitters, t \in {"a", "A"}, domEvent \in BOOLEAN : FireParamAct(e, t, domEvent)
    \/ \E e \in Emitters : FireAct(e, "a")

SpecBubble == Init /\ [][BubbleNext]_vars

\* on, off and once called with and without a type and a handler.
MissingNext ==
    \/ \E e \in Emitters, t \in {<<>>, <<"a">>}, h \in {NoHandler, Fn("h1")} :
          OnAct(e, t, h, None)
    \/ \E e \in Emitters, t \in {<<>>, <<"a">>}, h \in {NoHandler, Fn("h1")} :
          OffAct(e, t, h, None)
    \/ \E e \in Emitters, t \in {<<>>, <<"a">>}, h \in {NoHandler, Fn("h1")} :
          OnceAct(e, t, h, None)
    \/ \E e \in Emitters : FireAct(e, "a")

SpecMissing == Init /\ [][MissingNext]_vars

\* on and off with one and with several type tokens, in either spelling,
\* for two handlers.
ListTypes == {<<"a">>, <<"A">>, <<"b">>, <<"a", "b">>, <<"b", "A">>}
ListNext ==
    \/ \E t \in ListTypes, h \in {Fn("h1"), Fn("h5")} : OnListAct("A", t, h, None)
    \/ \E t \in ListTypes, h \in {Fn("h1"), Fn("h5")} : OffListAct("A", t, h, None)
    \/ \E t \in Tokens : FireAct("A", t)

SpecList == Init /\ [][ListNext]_vars

\* once with one and with two type tokens.
OnceListNext ==
    \/ \E e \in Emitters, t \in {<<"a">>, <<"a", "b">>} : OnceAct(e, t, Fn("h1"), None)
    \/ \E e \in Emitters, t \in {<<"a">>, <<"b">>} : OnAct(e, t, Fn("h1"), None)
    \/ \E e \in Emitters, t \in {<<"a">>, <<"b">>} : OffAct(e, t, Fn("h1"), None)
    \/ \E e \in Emitters, t \in Tokens : FireAct(e, t)

SpecOnceList == Init /\ [][OnceListNext]_vars

\* listens asked about handlers registered under several contexts.
ListensNext ==
    \/ \E t \in {<<"a">>, <<"a", "b">>}, h \in {Fn("h1"), Fn("h5")}, c \in {None, "B"} :
          OnAct("A", t, h, c)
    \/ \E t \in {<<"a">>, <<"b">>}, h \in {Fn("h1"), Fn("h5")}, c \in {None, "B"} :
          OffAct("A", t, h, c)
    \/ \E t \in Tokens, h \in {NoHandler, Fn("h1"), Fn("h5")}, c \in Contexts :
          ListensAct("A", t, h, c)

SpecListens == Init /\ [][ListensNext]_vars

\* Copying listeners between two emitters, also after listeners were
\* cleared.
CopyNext ==
    \/ \E e \in Emitters, t \in {<<"a">>, <<"b">>}, h \in {Fn("h1"), Fn("h5")} :
          OnAct(e, t, h, None)
    \/ \E e \in Emitters, h \in {Fn("h1"), Fn("h5")} : OffAct(e, <<"a">>, h, None)
    \/ \E e \in Emitters, x \in Emitters : CopyRecAct(e, x)
    \/ \E e \in Emitters, t \in {"a", "A"} : ClearAct(e, t)
    \/ \E e \in Emitters : ClearAllAct(e)
    \/ \E e \in Emitters : FireAct(e, "a")

SpecCopy == Init /\ [][CopyNext]_vars

\* Passes over chains that hold a handler that throws.
FailNext ==
    \/ \E e \in Emitters, h \in {Fn("h1"), Fn("h7")}, c \in {None, "B"} :
          OnAct(e, <<"a">>, h, c)
    \/ \E e \in Emitters, h \in {Fn("h1"), Fn("h7")} : OnceAct(e, <<"a">>, h, None)
    \/ \E e \in Emitters, h \in {Fn("h1"), Fn("h7")} : OffAct(e, <<"a">>, h, None)
    \/ \E e \in Emitters : FireAct(e, "a")

SpecFail == Init /\ [][FailNext]_vars

\* Tools of one type attached to, enabled on and disabled on two maps.
ToolNext ==
    \/ \E t \in Tools, h \in Hosts : AddToAct(t, h)
    \/ \E t \in Tools : EnableAct(t)
    \/ \E t \in Tools : DisableAct(t)

SpecTool == Init /\ [][ToolNext]_vars

\* Overlays on one map; O1 is shown at either coordinate, O2 at the first,
\* both also without one.
UiHosts == {"M1"}
ShowCoords(o) == (IF o = "O1" THEN Coords ELSE {[x |-> 1, y |-> 1]}) \cup {NoCoord}
UiOverlays == {"O1", "O2"}
UiNext ==
    \/ \E o \in UiOverlays, h \in UiHosts : UiAddToAct(o, h)
    \/ \E o \in UiOverlays, built \in BOOLEAN : \E c \in ShowCoords(o) : ShowAct(o, c, built)
    \/ \E o \in UiOverlays : HideAct(o)
    \/ \E o \in UiOverlays : RemoveAct(o)
    \/ \E h \in UiHosts, z \in Zooms : ZoomEndAct(h, z)

SpecUI == Init /\ [][UiNext]_vars

\* A singleton and a non-singleton overlay on one map.
RemoveOverlays == {"O1", "O3"}
RemoveNext ==
    \/ \E o \in RemoveOverlays, h \in UiHosts : UiAddToAct(o, h)
    \/ \E o \in RemoveOverlays, built \in BOOLEAN :
          \E c \in {[x |-> 1, y |-> 1], NoCoord} : ShowAct(o, c, built)
    \/ \E o \in RemoveOverlays : HideAct(o)
    \/ \E o \in RemoveOverlays : RemoveAct(o)

SpecRemove == Init /\ [][RemoveNext]_vars

\* Shows of an overlay with autoPan and of one without, the element one
\* pixel outside and just inside each edge _autoPan tests, the map at
\* rest, moving or panning.
PanEnvs ==
    {[moving |-> m, panning |-> pa, ox |-> ox, oy |-> oy,
      w |-> w, h |-> 10, mapW |-> 100, mapH |-> 80] :
        m \in BOOLEAN, pa \in BOOLEAN, ox \in {-15, -14, 61, 62},
        oy \in {-10, -9, 71, 72}, w \in {60}}
PanNext ==
    \/ \E o \in RemoveOverlays, h \in UiHosts : UiAddToAct(o, h)
    \/ \E o \in RemoveOverlays, env \in PanEnvs :
          PanShowAct(o, [x |-> 1, y |-> 1], TRUE, env)
    \/ \E o \in RemoveOverlays : HideAct(o)

SpecPan == Init /\ [][PanNext]_vars

\* The whole life of overlays, the unbinding of an info window included.
HideNext ==
    \/ \E o \in UiOverlays, h \in UiHosts : UiAddToAct(o, h)
    \/ \E o \in UiOverlays, built \in BOOLEAN : ShowAct(o, [x |-> 1, y |-> 1], built)
    \/ \E o \in UiOverlays : HideAct(o)
    \/ \E o \in UiOverlays : RemoveAct(o)
    \/ \E o \in UiOverlays : UnbindAct(o)

SpecHide == Init /\ [][HideNext]_vars

\* ------------------------------------------------------------ properties
SubOf(entry) == Sub(entry.handler, entry.context)

\* The subscribers the outermost pass of the last fire invoked, in order.
TopLog == SelectSeq(trace.log, LAMBDA en : en.d = 0)

Count(seq, x) == Cardinality({i \in 1..Len(seq) : seq[i] = x})

NoDuplicateSubscriber ==
    \A e \in Emitters, k \in Tokens :
        \A i, j \in 1..Len(evmap[e].ch[k].subs) :
            i # j => evmap[e].ch[k].subs[i] # evmap[e].ch[k].subs[j]

\* C1: no chain of any emitter holds the same (handler, context) pair
\* twice, whatever on, once, off and copyEventListeners calls came before,
\* and a fire invokes every pair of the fired type's chain exactly once.
C1_NoDuplicatePair ==
    /\ NoDuplicateSubscriber
    /\ trace.op = "fire" =>
         \A i \in 1..Len(trace.pre[trace.e]) :
            Cardinality({j \in 1..Len(TopLog) :
                            SubOf(TopLog[j]) = trace.pre[trace.e][i]}) = 1

\* on was just called with a pair its chain already held (once with the
\* context omitted, once with the emitter itself as context).
C1_Witness ==
    /\ trace.op = "on"
    /\ trace.dup
    /\ \E e \in Emitters :
          /\ HasSub(evmap[e].ch["a"].subs, Fn("h1"), e)
          /\ HasSub(evmap[e].ch["a"].subs, Fn("h1"), IF e = "A" THEN "B" ELSE "A")

\* C2: the handler wrapped by once is called at most once per registration,
\* also when it fires the same type again from inside; every fire that
\* reaches the closure calls it; once called, the closure is no longer
\* registered on its emitter (listens for it gives 0), and listens(type)
\* has dropped by the closures the fire ran.
C2_OnceExactlyOnce ==
    /\ \A w \in WIds :
          /\ invoked[w] <= 1
          /\ w \in called =>
                /\ invoked[w] = 1
                /\ onceTab[w] # NoClosure
                /\ Listens(evmap[onceTab[w].me], onceTab[w].evtType, Wrap(w), None) = 0
          /\ (trace.op = "fire" /\ \E i \in 1..Len(trace.log) : trace.log[i].handler = Wrap(w))
                => invoked[w] = 1 /\ w \in called
    /\ trace.op = "fire" =>
          Listens(evmap[trace.e], trace.type, NoHandler, None) =
             Len(SelectSeq(trace.pre[trace.e], LAMBDA sb : sb.handler.w = 0))

\* A fire ran a closure whose handler fired the type again: the nested
\* pass met the closure a second time, and the handler ran once.
C2_Witness ==
    /\ trace.op = "fire"
    /\ \E w \in WIds :
          /\ onceTab[w].handler = Fn("h4")
          /\ invoked[w] = 1
          /\ \E i, j \in 1..Len(trace.log) :
                /\ trace.log[i].handler = Wrap(w) /\ trace.log[i].d = 0
                /\ trace.log[j].handler = Wrap(w) /\ trace.log[j].d = 1
          /\ Len(trace.pre[trace.e]) >= 2
          /\ Listens(evmap[trace.e], trace.type, Wrap(w), None) = 0

\* C3: a fire invokes exactly the subscribers its type's chain held when
\* the call started, in that order: one removed by an earlier handler of
\* the pass still runs, one added during the pass does not.
C3_SnapshotDispatch ==
    trace.op = "fire" =>
        /\ Len(TopLog) = Len(trace.pre[trace.e])
        /\ \A i \in 1..Len(TopLog) : SubOf(TopLog[i]) = trace.pre[trace.e][i]

\* h2 ran first and removed h1, and h1 still ran in the same pass.
C3_Witness ==
    /\ trace.op = "fire"
    /\ \E i, j \in 1..Len(TopLog) :
          /\ i < j
          /\ TopLog[i].handler = Fn("h2")
          /\ TopLog[j].handler = Fn("h1")
    /\ Listens(evmap[trace.e], trace.type, Fn("h1"), None) = 0

C4_FireInv ==
    \A a, b \in Emitters :
        (trace.op = "fire" /\ trace.e = a /\ parent[a] = b /\ a # b /\ parent[b] = None) =>
            /\ Len(TopLog) = Len(trace.pre[b])
            /\ \A i \in 1..Len(TopLog) :
                  /\ SubOf(TopLog[i]) = trace.pre[b][i]
                  /\ TopLog[i].src = b

C4_OwnMap ==
    \A a \in Emitters :
        (trace'.op \in {"on", "off"} /\ trace'.e = a /\ parent[a] # None) =>
            \A o \in Emitters \ {a} : evmap'[o] = evmap[o]

\* C4: with A's event parent set to B (B forwarding to nobody), A.fire(x)
\* invokes exactly the subscribers of B's chain for x, each from B's map
\* and none from A's; on and off called on A write A's own map only.
C4_Delegation == []C4_FireInv /\ [][C4_OwnMap]_vars

\* A, whose parent is B, fired a type both have different subscribers for.
C4_Witness ==
    /\ trace.op = "fire"
    /\ trace.e = "A" /\ parent["A"] = "B" /\ parent["B"] = None
    /\ trace.pre["A"] # <<>>
    /\ trace.pre["B"] # <<>>
    /\ trace.pre["A"] # trace.pre["B"]
    /\ TopLog # <<>>

\* C5: t.addTo(h) while another tool prev of the type is enabled on h and
\* holds h's slot leaves prev disabled, prev's event set off h, prev's
\* disable event fired (before t's events), t enabled and h's slot t.
C5_SlotExclusivity ==
    (/\ ttrace.op = "addTo"
     /\ ttrace.prev # None
     /\ ttrace.prev # ttrace.t
     /\ ttrace.prevOn) =>
        /\ ~IsEnabled(ttrace.prev)
        /\ Registered(hmap[ttrace.h], ttrace.prev) = 0
        /\ Len(ttrace.ev) >= 1
        /\ ttrace.ev[1] = [tool |-> ttrace.prev, name |-> "disable"]
        /\ Names(EnDis(ttrace.ev, ttrace.prev)) = <<"disable">>
        /\ IsEnabled(ttrace.t)
        /\ slot[ttrace.h] = ttrace.t
        /\ \A h \in Hosts : Cardinality({t \in Tools : slot[h] = t}) <= 1

\* T2 was attached to the map T1 was enabled on, and registered its events.
C5_Witness ==
    /\ ttrace.op = "addTo"
    /\ ttrace.prev # None
    /\ ttrace.prev # ttrace.t
    /\ ttrace.prevOn
    /\ Registered(hmap[ttrace.h], ttrace.t) = Len(ToolEvents)

\* C6: at most one tool of the type is enabled on a map at any time.
C6_AtMostOneEnabled ==
    \A h \in Hosts :
        Cardinality({t \in Tools : IsEnabled(t) /\ tmap[t] = h}) <= 1

C7_Alternate ==
    \A t \in Tools :
        /\ \A i \in 1..Len(elog[t]) :
              elog[t][i] = IF i % 2 = 1 THEN "enable" ELSE "disable"
        /\ IsEnabled(t) <=> (Len(elog[t]) % 2 = 1)

C7_Step ==
    \A t \in Tools :
        /\ (ttrace'.op \in {"enable", "disable"} /\ ttrace'.t = t /\ ttrace'.noop) =>
              /\ IsEnabled(t)' = IsEnabled(t)
              /\ hmap' = hmap
              /\ ttrace'.ev = <<>>
        /\ (ttrace'.op = "enable" /\ ttrace'.t = t /\ ~ttrace'.noop) =>
              /\ ~IsEnabled(t) /\ IsEnabled(t)'
              /\ ttrace'.ev = <<[tool |-> t, name |-> "enable"]>>
        /\ (ttrace'.op = "disable" /\ ttrace'.t = t /\ ~ttrace'.noop) =>
              /\ IsEnabled(t) /\ ~IsEnabled(t)'
              /\ ttrace'.ev = <<[tool |-> t, name |-> "disable"]>>

\* C7: enable() on an enabled or unattached tool and disable() on a
\* disabled or unattached tool change neither isEnabled() nor the map's
\* registrations and fire nothing; every other enable() / disable() flips
\* isEnabled() and fires its one event; so a tool's enable and disable
\* events alternate, enable first, and the tool is enabled exactly after
\* an enable event.
C7_EnableDisable == []C7_Alternate /\ [][C7_Step]_vars

\* An attached tool was disabled and disable() was called on it again.
C7_Witness ==
    /\ ttrace.op = "disable"
    /\ ttrace.noop
    /\ tmap[ttrace.t] # None
    /\ elog[ttrace.t] = <<"enable", "disable">>

\* ---------------------------------------------------------------- overlays
\* The singleton-kind elements in the overlay container of map h.
SingletonIn(h) ==
    {id \in DomIds : dom[id].live /\ dom[id].parent = h /\ Single(dom[id].by)}

IsVisible(o) == UiIsVisible(UiState, o)

\* The position of the first call of kind op on element id in the last
\* overlay call's DOM calls; 0 when there is none.
FirstOp(op, id) ==
    LET I == {i \in 1..Len(utrace.ops) : utrace.ops[i] = [op |-> op, id |-> id]}
    IN  IF I = {} THEN 0 ELSE CHOOSE i \in I : \A j \in I : i <= j

\* C8: for singleton-kind overlays of one class on map H, after any sequence
\* of show, hide and remove calls H's overlay container holds at most one
\* element of the class, H's cache entry is that element and it was built by
\* the most recent show; and a show that finds an element cached detaches it
\* from the container before it appends its own element.
C8_SingletonEviction ==
    /\ \A h \in Hosts :
        /\ Cardinality(SingletonIn(h)) <= 1
        /\ \A id \in SingletonIn(h) : cache[h] = id /\ dom[id].by = lastShow[h]
        /\ cache[h] # 0 => cache[h] \in SingletonIn(h)
    /\ (utrace.op = "show" /\ utrace.err = None /\ utrace.prev # 0) =>
        /\ FirstOp("remove", utrace.prev) > 0
        /\ \A i \in 1..Len(utrace.ops) :
              utrace.ops[i].op = "append" =>
                  /\ i > FirstOp("remove", utrace.prev)
                  /\ utrace.ops[i].id # utrace.prev
        /\ cache[utrace.h] # utrace.prev

\* O2 has been shown while O1's element was displayed: O1's element is out
\* of the container, O2's element is in it and cached.
C8_Witness ==
    /\ utrace.op = "show" /\ utrace.o = "O2" /\ utrace.built
    /\ utrace.prev # 0 /\ uiDOM["O1"] = utrace.prev
    /\ dom[uiDOM["O1"]].parent = None /\ dom[uiDOM["O1"]].display = ""
    /\ uiDOM["O2"] # 0 /\ cache["M1"] = uiDOM["O2"]
    /\ SingletonIn("M1") = {uiDOM["O2"]}

\* C9: among the singleton-kind overlays of one class on one map at most one
\* reports isVisible() = true.
C9_AtMostOneVisible ==
    \A h \in Hosts :
        Cardinality({o \in Overlays : Single(o) /\ owner[o] = h /\ IsVisible(o)}) <= 1

\* C10: the placement the zoomend handler has written for a visible overlay
\* at coordinate C is the placement a fresh show(C) writes under the same
\* view: project(C) + (dx, dy) + the offset of the class.
C10_ZoomEndPlacement ==
    utrace.op = "zoomend" =>
        \A o \in utrace.ran :
            LET el == dom[uiDOM[o]]
                U2 == UiShow(UiState, o, coord[o], TRUE)
                fresh == U2.dom[U2.uiDOM[o]]
                p == Project(view[owner[o]], coord[o])
            IN  /\ el.left = fresh.left /\ el.top = fresh.top
                /\ el.left = p.x + Dx(o) + OffsetX
                /\ el.top = p.y + Dy(o) + OffsetY

\* The zoomend handler of O2 (dx, dy non-zero) has repositioned its element
\* after the view changed.
C10_Witness ==
    /\ utrace.op = "zoomend" /\ "O2" \in utrace.ran
    /\ view["M1"] = 1 /\ IsVisible("O2")

\* The overlay's pair (handler, o) is in the map's chain for the type.
UiRegistered(o, h, type, fnName) ==
    /\ hmap[h].has
    /\ HasSub(hmap[h].ch[type].subs, Fn(fnName), o)

\* C11: between calls (every zoom of the map has ended and fired zoomend),
\* a visible, attached overlay is registered for its map's zooming and
\* zoomend events and its element is placed at project(coordinate) +
\* (dx, dy) + the class offset under the map's current view.
C11_PlacementFollowsView ==
    \A o \in Overlays :
        (IsVisible(o) /\ owner[o] # None) =>
            /\ UiRegistered(o, owner[o], "zooming", "onZooming")
            /\ UiRegistered(o, owner[o], "zoomend", "onZoomEnd")
            /\ dom[uiDOM[o]].left = UiGetPosition(UiState, o).x
            /\ dom[uiDOM[o]].top = UiGetPosition(UiState, o).y

\* ------------------------------------------------------------ dispatch
\* C12: a fire runs every subscriber of the snapshot, in order, also after
\* one of them returned false, and raises nothing; stopPropagation is
\* called on the payload's DOM event exactly for the subscribers whose
\* function returned exactly false (not 0, not undefined), and never when
\* the payload carries no DOM event.
C12_FalseReturn ==
    trace.op = "fire" =>
        LET snap == trace.pre[trace.e]
            falses == {i \in 1..Len(snap) : Returns(snap[i].handler) = "false"}
        IN  /\ trace.err = None
            /\ Len(TopLog) = Len(snap)
            /\ \A i \in 1..Len(snap) : SubOf(TopLog[i]) = snap[i]
            /\ (trace.stops # <<>>) <=> (trace.arg.domEvent /\ falses # {})
            /\ trace.arg.domEvent => Len(trace.stops) = Cardinality(falses)

\* A payload with a DOM event was fired at the chain [h5, h1]: h5 returned
\* false, the propagation was stopped, and h1 ran after it.
C12_Witness ==
    /\ trace.op = "fire"
    /\ trace.arg.domEvent
    /\ Len(TopLog) = 2
    /\ TopLog[1].handler = Fn("h5")
    /\ TopLog[2].handler = Fn("h1")
    /\ trace.stops = <<0>>

\* ------------------------------------------------------- type casing
\* The spellings of one event type.
Casings(t) == IF t \in {"a", "A"} THEN {"a", "A"} ELSE {t}

\* The subscribers e.fire(type) invokes, in order, when the event maps are em.
FireLog(em, e, type) ==
    Fire([em |-> em, called |-> called, invoked |-> invoked, log |-> <<>>,
          err |-> None, param |-> NoParam, stops |-> <<>>],
         e, type, 0, Cardinality(Emitters)).log

\* C13: event types are case-insensitive: chains are stored under the
\* lowercased token only, and from every reachable state a pair registered
\* by on under one spelling of a token (alone or as a later token of a
\* list whose earlier token does not hold the pair yet) is counted by
\* listens, invoked exactly once by fire and removed by off under every
\* other spelling.
C13_CaseInsensitive ==
    /\ \A e \in Emitters : evmap[e].ch["A"] = AbsentChain
    /\ \A e \in Emitters, c \in Contexts, t1 \in Tokens : \A t2 \in Casings(t1) :
          LET h == Fn("h1")
              cc == IF c = None THEN e ELSE c
              m1 == On(evmap[e], e, <<t1>>, h, c)
              m2 == On(evmap[e], e, <<"b", t1>>, h, c)
              log == FireLog([evmap EXCEPT ![e] = m1], e, t2)
          IN  /\ Listens(m1, t2, h, cc) = 1
              /\ Listens(m1, t2, NoHandler, None) = Listens(m1, t1, NoHandler, None)
              /\ Cardinality({i \in 1..Len(log) : SubOf(log[i]) = Sub(h, cc)}) = 1
              /\ Listens(Off(m1, e, <<t2>>, h, c), t1, h, cc) = 0
              /\ Off(m1, e, <<t2>>, h, c) = Off(m1, e, <<t1>>, h, c)
              /\ ~HasSub(evmap[e].ch["b"].subs, h, cc) => Listens(m2, t2, h, cc) = 1

\* fire('A') has invoked a handler registered with on('a b', ...).
C13_Witness ==
    /\ trace.op = "fire"
    /\ trace.type = "A"
    /\ Len(TopLog) >= 1
    /\ evmap[trace.e].ch["a"].subs # <<>>
    /\ evmap[trace.e].ch["b"].subs = evmap[trace.e].ch["a"].subs

\* --------------------------------------------------- missing arguments
\* C14: on, off and once called without an event type or without a handler
\* leave the emitter's event map as it was, and no fire raises an error.
C14_MissingArgsAbsorbed ==
    /\ (trace.op \in {"on", "off", "once"} /\ trace.noarg) => trace.kept
    /\ trace.op = "fire" => trace.err = None

\* --------------------------------------------------- show's coordinate
\* C15: show() without a coordinate on an overlay that has none committed
\* raises an Error, fires nothing (not even showstart), touches no element
\* and leaves the overlay and the map as they were; show() without a
\* coordinate after a show(C) that committed C shows the overlay at C.
C15_ShowCoordinate ==
    (utrace.op = "show" /\ utrace.c = NoCoord) =>
        IF utrace.pc = NoCoord
        THEN /\ utrace.err = "Error"
             /\ utrace.ev = <<>>
             /\ utrace.ops = <<>>
             /\ utrace.kept
        ELSE /\ utrace.err # "Error"
             /\ utrace.err = None =>
                   /\ coord[utrace.o] = utrace.pc
                   /\ utrace.ev[1] = [ui |-> utrace.o, name |-> "showstart"]
                   /\ utrace.built =>
                         /\ IsVisible(utrace.o)
                         /\ dom[uiDOM[utrace.o]].left =
                               Project(view[utrace.h], utrace.pc).x + Dx(utrace.o) + OffsetX
                         /\ dom[uiDOM[utrace.o]].top =
                               Project(view[utrace.h], utrace.pc).y + Dy(utrace.o) + OffsetY

\* show() was called without a coordinate on an attached overlay that had
\* never been given one.
C15_Witness ==
    /\ utrace.op = "show"
    /\ utrace.c = NoCoord /\ utrace.pc = NoCoord
    /\ utrace.err = "Error"
    /\ owner[utrace.o] # None

\* ------------------------------------------------------- type lists
CallPair == Sub(trace.call.h, trace.call.ctx)
CallKeys == {toLowerCase(trace.call.types[i]) : i \in 1..Len(trace.call.types)}

\* C16: after on(types, handler, context) the pair is registered exactly
\* once under every token of the list, also when an earlier token of the
\* list held the pair before the call.
C16_OnEveryToken ==
    (trace.op = "on" /\ trace.call.rec) =>
        \A k \in CallKeys : Count(evmap[trace.e].ch[k].subs, CallPair) = 1

\* C17: after off(types, handler, context) on an emitter with an event map,
\* no chain of a named type holds the pair, also when an earlier token of
\* the list has no chain, and every other subscriber of every chain is
\* where it was, in the same order.
C17_OffEveryToken ==
    (trace.op = "off" /\ trace.call.rec /\ trace.call.before.has) =>
        \A k \in Tokens :
            evmap[trace.e].ch[k].subs =
                IF k \in CallKeys
                THEN RemoveSub(trace.call.before.ch[k].subs, trace.call.h, trace.call.ctx)
                ELSE trace.call.before.ch[k].subs

\* ------------------------------------------------- once with a type list
RECURSIVE SumInvoked(_)
SumInvoked(W) ==
    IF W = {} THEN 0
    ELSE LET w == CHOOSE x \in W : TRUE IN invoked[w] + SumInvoked(W \ {w})

\* C18: the handler given to one once call is invoked at most once in
\* total, over all the types of the call and all later fires.
C18_OnceListShared ==
    \A w \in WIds :
        onceTab[w].reg # 0 =>
            SumInvoked({v \in WIds : onceTab[v].reg = onceTab[w].reg}) <= 1

\* ------------------------------------------------------- the payload
\* C19: the payload object the caller passes to fire has the same fields
\* and values after the call as before it.
C19_PayloadUntouched ==
    (trace.op = "fire" /\ trace.arg.given) => trace.param = trace.arg

\* ------------------------------------------------------ dispatch order
\* C20: a chain is in registration order and fire follows it: on puts a
\* new pair behind every pair the chain holds and moves none, off takes
\* the pair out and moves none (so a pair removed and registered again is
\* last), and a fire invokes each subscriber of the chain once, in the
\* chain's order.
C20_RegistrationOrder ==
    /\ (trace.op = "on" /\ trace.call.rec) =>
          \A k \in Tokens :
              \/ evmap[trace.e].ch[k].subs = trace.call.before.ch[k].subs
              \/ /\ ~HasSub(trace.call.before.ch[k].subs, trace.call.h, trace.call.ctx)
                 /\ evmap[trace.e].ch[k].subs =
                       Append(trace.call.before.ch[k].subs, CallPair)
    /\ (trace.op = "off" /\ trace.call.rec) =>
          \A k \in Tokens :
              \/ evmap[trace.e].ch[k].subs = trace.call.before.ch[k].subs
              \/ evmap[trace.e].ch[k].subs =
                    RemoveSub(trace.call.before.ch[k].subs, trace.call.h, trace.call.ctx)
    /\ trace.op = "fire" =>
          /\ Len(TopLog) = Len(trace.pre[trace.e])
          /\ \A i \in 1..Len(TopLog) : SubOf(TopLog[i]) = trace.pre[trace.e][i]

\* h1 was registered behind h5 and a fire has invoked h5, then h1.
C20_Witness ==
    /\ trace.op = "fire"
    /\ Len(TopLog) = 2
    /\ TopLog[1].handler = Fn("h5")
    /\ TopLog[2].handler = Fn("h1")

\* ------------------------------------------------------------ listens
\* The chain of emitter e that the spellings of type t name.
ChainOf(e, t) ==
    LET K == {k \in Casings(t) : evmap[e].ch[k].st = "array"}
    IN  IF ~evmap[e].has \/ K = {} THEN <<>>
        ELSE evmap[e].ch[CHOOSE k \in K : TRUE].subs

\* C21: listens(type, handler, context) returns 1 when the handler is in
\* the type's chain with that context (with any context when none is
\* given) and 0 when it is not; without a handler it returns the length of
\* the type's chain, 0 when the type or the event map is absent.
C21_Listens ==
    trace.op = "listens" =>
        LET chain == ChainOf(trace.e, trace.type)
            h == trace.call.h
            c == trace.call.ctx
        IN  trace.ret =
               IF h = NoHandler THEN Len(chain)
               ELSE IF \E i \in 1..Len(chain) :
                          /\ chain[i].handler = h
                          /\ (c = None \/ chain[i].context = c)
                    THEN 1 ELSE 0

\* listens was asked for h1 with the context it is not registered under,
\* while h1 is registered under another one: 0.
C21_Witness ==
    /\ trace.op = "listens"
    /\ trace.call.h = Fn("h1") /\ trace.call.ctx = "B" /\ trace.type = "A"
    /\ trace.ret = 0
    /\ HasSub(evmap["A"].ch["a"].subs, Fn("h1"), "A")

\* ------------------------------------------------- copyEventListeners
\* The entries of seq that are not in old, in seq's order.
NewOf(seq, old) ==
    SelectSeq(seq, LAMBDA sb : ~HasSub(old, sb.handler, sb.context))

\* C22: this.copyEventListeners(target) raises nothing; afterwards every
\* chain of this is its earlier chain followed by the pairs of target's
\* chain it did not hold yet, each once and in target's order; target's
\* map is as before; with no event map on target this' map is as before.
C22_Copy ==
    (trace.op = "copy" /\ trace.call.rec) =>
        /\ trace.err = None
        /\ trace.from # trace.e => evmap[trace.from] = trace.tbefore
        /\ ~trace.tbefore.has => evmap[trace.e] = trace.call.before
        /\ \A k \in Tokens :
              evmap[trace.e].ch[k].subs =
                  trace.call.before.ch[k].subs \o
                      NewOf(trace.tbefore.ch[k].subs, trace.call.before.ch[k].subs)

\* --------------------------------------------------- a handler that fails
\* The function a subscriber ends up calling.
Target(sb) ==
    IF sb.handler.w = 0 THEN sb.handler ELSE onceTab[sb.handler.w].handler

C24_EvictedLosesHost ==
    (/\ ttrace.op = "addTo"
     /\ ttrace.prev # None
     /\ ttrace.prev # ttrace.t) =>
        /\ ToolGetMap(ToolState, ttrace.prev) = None
        /\ ToolEnable(ToolState, ttrace.prev) = ToolState

\* How many entries of chain subs hold handler h bound to context c.
Times(subs, h, c) ==
    Cardinality({i \in 1..Len(subs) : subs[i] = Sub(h, c)})

\* Every event of tool t is registered exactly once, bound to t, on map h.
RegisteredOnce(h, t) ==
    \A i \in 1..Len(ToolEvents) :
        Times(hmap[h].ch[ToolEvents[i].type].subs, ToolEvents[i].handler, t) = 1

\* C25: a tool is enabled exactly when its event set is registered, once
\* and bound to it, on its current map; a disabled tool's events are on no
\* map, an enabled tool's on no map but its current one.
C25_EnabledIffRegistered ==
    \A t \in Tools :
        /\ IsEnabled(t) <=> (tmap[t] # None /\ RegisteredOnce(tmap[t], t))
        /\ ~IsEnabled(t) => \A h \in Hosts : Registered(hmap[h], t) = 0
        /\ IsEnabled(t) => \A h \in Hosts \ {tmap[t]} : Registered(hmap[h], t) = 0

\* The positions of the events named name of tool t in ev.
EvAt(ev, t, name) ==
    {i \in 1..Len(ev) : ev[i] = [tool |-> t, name |-> name]}

\* C26: t.addTo(h) ends with t enabled on h (its events registered on h)
\* and in h's slot; its events are: the disable of the tool found in the
\* slot if any, then t's enable once, then t's add once.
C26_AttachOrder ==
    ttrace.op = "addTo" =>
        LET t == ttrace.t
            ev == ttrace.ev
        IN  /\ IsEnabled(t) /\ tmap[t] = ttrace.h
            /\ RegisteredOnce(ttrace.h, t)
            /\ slot[ttrace.h] = t
            /\ Cardinality(EvAt(ev, t, "enable")) = 1
            /\ Cardinality(EvAt(ev, t, "add")) = 1
            /\ ev[Len(ev)] = [tool |-> t, name |-> "add"]
            /\ ev[Len(ev) - 1] = [tool |-> t, name |-> "enable"]
            /\ \A i \in 1..(Len(ev) - 2) :
                  ev[i] = [tool |-> ttrace.prev, name |-> "disable"]

\* ------------------------------------------------------ show, hide, remove
UiEv(o, name) == [ui |-> o, name |-> name]

\* C27: show on an attached overlay with a coordinate given or kept fires
\* showstart then showend, each once; when buildOn yields nothing the call
\* appends nothing, the overlay holds no element, the map's cache holds
\* none, no element of the overlay is in the container and isVisible() is
\* false.
C27_ShowEvents ==
    (/\ utrace.op = "show"
     /\ utrace.h # None
     /\ (utrace.c # NoCoord \/ utrace.pc # NoCoord)) =>
        /\ utrace.err = None
        /\ utrace.ev = <<UiEv(utrace.o, "showstart"), UiEv(utrace.o, "showend")>>
        /\ ~utrace.built =>
              /\ \A i \in 1..Len(utrace.ops) : utrace.ops[i].op # "append"
              /\ uiDOM[utrace.o] = 0
              /\ cache[utrace.h] = 0
              /\ \A id \in DomIds :
                    ~(dom[id].live /\ dom[id].by = utrace.o /\ dom[id].parent # None)
              /\ ~IsVisible(utrace.o)

\* An overlay that held a visible element was shown again and buildOn
\* yielded nothing.
C27_Witness ==
    /\ utrace.op = "show"
    /\ utrace.h # None
    /\ utrace.err = None
    /\ ~utrace.built
    /\ utrace.prev # 0
    /\ \E i \in 1..Len(utrace.ops) : utrace.ops[i].op = "remove"

C29_Remove ==
    (utrace.op = "remove" /\ utrace.h # None) =>
        LET o == utrace.o IN
        /\ utrace.err = None
        /\ \A i \in 1..Len(DefaultEvents) :
              ~HasSub(hmap[utrace.h].ch[DefaultEvents[i].type].subs,
                      DefaultEvents[i].handler, o)
        /\ (~Single(o) /\ utrace.had # 0) =>
              /\ uiDOM[o] = 0
              /\ ~dom[utrace.had].live
              /\ \E i \in 1..Len(utrace.ops) :
                    utrace.ops[i] = [op |-> "remove", id |-> utrace.had]
        /\ owner[o] = None
        /\ ~IsVisible(o)
        /\ utrace.ev = (IF utrace.had # 0 THEN <<UiEv(o, "hide")>> ELSE <<>>)
                       \o (IF HasOnRemove(o) THEN <<UiEv(o, "onRemove")>> ELSE <<>>)
                       \o <<UiEv(o, "remove")>>

\* A non-singleton overlay that held an element was removed from its map.
C29_Witness ==
    /\ utrace.op = "remove"
    /\ utrace.h # None
    /\ ~Single(utrace.o)
    /\ utrace.had # 0
    /\ utrace.ev[1] = UiEv(utrace.o, "hide")

\* ---------------------------------------------------------------- autoPan
\* The element of the last show, in the container, as _autoPan sees it.
PanPoint ==
    ViewPointToContainerPoint(utrace.env,
        [x |-> dom[uiDOM[utrace.o]].left, y |-> dom[uiDOM[utrace.o]].top])

PanOutside ==
    \/ PanPoint.x < 0
    \/ PanPoint.x + utrace.env.w - 35 > utrace.env.mapW
    \/ PanPoint.y < 0
    \/ PanPoint.y > utrace.env.mapH

\* C30: a show that placed an element pans the map (once, duration 600)
\* exactly when autoPan is on, the map neither moves nor pans and the
\* element is outside a bound; the pan's x is positive for a left overflow
\* and negative for a right one, its y is -y + 50 (positive) for a top
\* overflow and height - y - element height - 30 (negative) for a bottom
\* one; with autoPan off no show pans.
C30_AutoPan ==
    (utrace.op = "show" /\ utrace.err = None /\ utrace.built) =>
        /\ ~AutoPan(utrace.o) => utrace.pans = <<>>
        /\ AutoPan(utrace.o) =>
              (utrace.pans # <<>> <=>
                  (~utrace.env.moving /\ ~utrace.env.panning /\ PanOutside))
        /\ utrace.pans # <<>> =>
              LET pan == utrace.pans[1]
                  x == PanPoint.x
                  y == PanPoint.y
              IN  /\ Len(utrace.pans) = 1
                  /\ pan.t = 600
                  /\ x < 0 => pan.x > 0
                  /\ (x >= 0 /\ x + utrace.env.w - 35 > utrace.env.mapW) => pan.x < 0
                  /\ (x >= 0 /\ x + utrace.env.w - 35 <= utrace.env.mapW) => pan.x = 0
                  /\ y < 0 => (pan.y = -y + 50 /\ pan.y > 0)
                  /\ y > utrace.env.mapH =>
                        (pan.y = utrace.env.mapH - y - utrace.env.h - 30 /\ pan.y < 0)
                  /\ (y >= 0 /\ y <= utrace.env.mapH) => pan.y = 0

\* A show with autoPan found the element right of and below the viewport
\* and panned the map.
C30_Witness ==
    /\ utrace.op = "show"
    /\ utrace.err = None
    /\ utrace.built
    /\ AutoPan(utrace.o)
    /\ utrace.pans # <<>>
    /\ utrace.pans[1].x < 0
    /\ utrace.pans[1].y < 0

\* ------------------------------------------------- remove and hide again
\* C31: remove() raises nothing whatever the overlay's state, never
\* attached and already removed included, and leaves the overlay without
\* owner and not visible.
C31_RemoveAlways ==
    utrace.op = "remove" =>
        /\ utrace.err = None
        /\ owner[utrace.o] = None
        /\ ~IsVisible(utrace.o)

\* The hide events of overlay o among the events ev.
Hides(ev, o) == SelectSeq(ev, LAMBDA x : x = UiEv(o, "hide"))

C32_Step ==
    \A o \in Overlays :
        /\ Len(Hides(utrace'.ev, o)) <= 1
        /\ Len(Hides(utrace'.ev, o)) = 1 => (IsVisible(o) /\ ~IsVisible(o)')

\* C32: a call fires an overlay's hide event at most once, and only when
\* the overlay was visible before the call and is hidden after it (so not
\* twice without a show in between).
C32_HideOnTransition == [][C32_Step]_vars

====
